---- MODULE Spec2Model ----
(***************************************************************************)
(* Recording session controller of WhisperTray (LinWhisper).               *)
(*                                                                         *)
(* The shared AppState lives behind one tokio Mutex (state.rs:457).  The   *)
(* startup tasks of lib.rs and the trigger handlers of tray.rs, hotkey.rs  *)
(* and commands.rs are tasks that take that lock, call into AppState and   *)
(* release it.  Every await inside a locked section is a step of its own,  *)
(* so that other tasks are seen waiting while the pipeline runs.           *)
(***************************************************************************)
EXTENDS Integers, FiniteSets, Sequences, TLC

(***************************************************************************)
(* Bounds                                                                  *)
(***************************************************************************)
NumTriggers == 2

(***************************************************************************)
(* Tasks                                                                   *)
(***************************************************************************)
LoaderTask == 0
DbTask == 1
Triggers == 2..(NumTriggers + 1)
NoTask == NumTriggers + 2

RecordingStatus == {"Loading", "Recording", "Processing", "Ready", "Error"}

\* The handlers a trigger event can run.
TriggerKinds == {"tray", "hotkey", "menu_stop", "cmd_start", "cmd_stop"}

\* The messages of AppError::Provider raised by stt::create_stt_provider.
ProviderErrors == {"Provider: requires an API key", "Provider: not yet implemented",
                   "Provider: unknown provider"}

\* Results of AppState::start_recording / AppState::stop_recording.
PipelineErrors == {"ModeNotFound", "Io", "Transcription", "Keyring"} \cup ProviderErrors
AppErrors == {"RecordingInProgress", "NoRecordingInProgress", "Audio"} \cup PipelineErrors

\* Mode registry: two built-in modes of create_builtin_modes that differ in
\* ai_processing, and a custom mode whose file may be absent from the modes
\* directory.
BuiltinModeKeys == {"voice_to_text", "message"}
CustomModeKeys == {"custom"}
SettingsModeKeys == BuiltinModeKeys \cup CustomModeKeys
ModeAiProcessing(key) == key \in {"message", "custom"}

\* Mode.prompt_template is empty (String::new() in voice_to_text).
ModePromptEmpty(key) == key = "voice_to_text"

\* modes::SttProvider and modes::LlmProvider; Custom stands for Custom(name).
SttProviders == {"WhisperCpp", "WhisperServer", "OpenAI", "Deepgram", "Custom"}
LlmProviders == {"OpenAI", "Anthropic", "Ollama", "Custom"}

\* What a custom mode file can select, and the selection the built-in modes
\* make (whisper.cpp and Ollama).
CustomModes == [stt_provider : SttProviders, llm_provider : LlmProviders]
BuiltinProviders == [stt_provider |-> "WhisperCpp", llm_provider |-> "Ollama"]

\* state::Settings, reduced to the fields a session reads and the stored
\* key of the active mode, and Settings::default(), which AppState::new
\* falls back on.
Settings ==
    [auto_paste : BOOLEAN, context_awareness : BOOLEAN, active_mode_key : SettingsModeKeys]
DefaultSettings ==
    [auto_paste |-> TRUE, context_awareness |-> FALSE, active_mode_key |-> "voice_to_text"]

\* What paste::get_clipboard_text().ok() can give: no text, or the text
\* on the clipboard.
ClipboardReads == {"None", "copied"}

\* Texts a speech-to-text provider can return, and texts a completion can.
Transcripts == {"", "hello"}
LlmTexts == {"polished"}

\* Outcomes of a keyring lookup, of ensure_model and of a provider call.
KeyringOutcomes == {"Some", "None", "Error"}
ModelOutcomes == {"exists", "downloaded", "download_failed"}
Failed == "Failed"

VARIABLES
    status,          \* AppState.status
    recording,       \* RecordingHandle flag read by is_recording()
    captures,        \* number of open capture streams
    levelCallback,   \* the open capture reports its level to a callback
    modes,           \* AppState.modes (keys)
    active_mode_key, \* AppState.active_mode_key
    database,        \* AppState.database is Some
    settings,        \* AppState.settings
    last_context,    \* AppState.last_context
    startMode,       \* get_active_mode() when the capture in progress was started
    startContext,    \* clipboard snapshot the start of that capture took
    customMode,      \* providers selected by the custom mode in AppState.modes
    icon,            \* status last shown by the tray icon
    menuStop,        \* the tray menu still holds the item "stop_recording"
    lock,            \* holder of the SharedState mutex
    loaderPc,        \* position of the load-modes task of run()
    dbPc,            \* position of the database task of run()
    db_lock,         \* holder of the mutex around the Database
    pc,              \* position of each trigger task
    kind,            \* handler the trigger task runs
    observed,        \* toggle_recording: is_recording read under the first lock
    sessMode,        \* mode cloned by process_recording
    presult,         \* result of process_recording so far
    transcript,      \* process_recording: text returned by self.transcribe
    output,          \* process_recording: the final output
    sttProvider,     \* transcribe: provider kind dispatched on
    sttKey,          \* transcribe: api key handed to create_stt_provider
    sttNet,          \* transcribe: a network request was made
    sttModel,        \* transcribe: how ensure_model found the model file
    sttCalled,       \* transcribe: provider.transcribe was invoked
    promptContext,   \* process_with_llm: context handed to render_prompt
    llm,             \* process_recording: what the LLM step came to
    handoffs,        \* process_recording: texts handed to history and paste
    req,             \* handler of the latest request for a start or stop
    obs,             \* is_recording() that handler based its choice on
    op,              \* AppState operation the request called
    res,             \* result the operation returned ("None" while it runs)
    pre,             \* status when the operation was called
    preRec,          \* is_recording() when the operation was called
    post,            \* status when the operation returned
    afterFail,       \* the operation was called after a failed session
    lastFailed,      \* the last concluded session failed, none started since
    call,            \* arguments of the pure function applied
    returned,        \* the function has returned
    rendered,        \* the String render_prompt returned
    artifact,        \* the bool the artifact filter returned
    transcribed,     \* the String WhisperCppProvider::transcribe returned
    duration_ms      \* the duration calculate_duration_ms returned

vars == <<status, recording, captures, levelCallback, modes, active_mode_key, database, icon,
          menuStop, settings, customMode, last_context, startMode, startContext,
          lock, db_lock, loaderPc, dbPc, pc, kind, observed, sessMode, presult,
          transcript, output, sttProvider, sttKey, sttNet, sttModel, sttCalled,
          promptContext, llm, handoffs,
          req, obs, op, res, pre, preRec, post, afterFail, lastFailed,
          call, returned, rendered, artifact, transcribed, duration_ms>>

\* The call of a pure function and what it returned.
fnVars == <<call, returned, rendered, artifact, transcribed, duration_ms>>

\* What process_recording knows of the session it is processing, kept until
\* the handler that called stop_recording has seen the result.
sessVars == <<transcript, output, sttProvider, sttKey, sttNet, sttModel, sttCalled,
              promptContext, llm, handoffs>>

\* What a successful start leaves for the session it opens.
startVars == <<last_context, startMode, startContext>>

NoSession ==
    /\ transcript = "none"
    /\ output = "none"
    /\ sttProvider = "none"
    /\ sttKey = "none"
    /\ sttNet = FALSE
    /\ sttModel = "none"
    /\ sttCalled = FALSE
    /\ promptContext = "unused"
    /\ llm = "none"
    /\ handoffs = << >>

ClearSession ==
    /\ transcript' = "none"
    /\ output' = "none"
    /\ sttProvider' = "none"
    /\ sttKey' = "none"
    /\ sttNet' = FALSE
    /\ sttModel' = "none"
    /\ sttCalled' = FALSE
    /\ promptContext' = "unused"
    /\ llm' = "none"
    /\ handoffs' = << >>

callVars == <<req, obs, op, res, pre, preRec, post, afterFail>>

\* The record of the latest request describes the step that has just been
\* taken (and the stop in flight, until it returns); any other step clears it.
NoRequest ==
    /\ req = "none"
    /\ obs = FALSE
    /\ op = "none"
    /\ res = "None"
    /\ pre = "Loading"
    /\ preRec = FALSE
    /\ post = "Loading"
    /\ afterFail = FALSE

ClearRequest ==
    /\ req' = "none"
    /\ obs' = FALSE
    /\ op' = "none"
    /\ res' = "None"
    /\ pre' = "Loading"
    /\ preRec' = FALSE
    /\ post' = "Loading"
    /\ afterFail' = FALSE

AppInit ==
    /\ status = "Loading"
    /\ recording = FALSE
    /\ captures = 0
    /\ levelCallback = FALSE
    /\ modes = {}
    /\ active_mode_key \in SettingsModeKeys
    /\ database = FALSE
    /\ settings = [DefaultSettings EXCEPT !.active_mode_key = active_mode_key]
    /\ last_context = "None"
    /\ startMode = "none"
    /\ startContext = "None"
    /\ customMode = BuiltinProviders
    /\ icon = "Ready"
    /\ menuStop = TRUE
    /\ lock = NoTask
    /\ loaderPc = "spawned"
    /\ dbPc = "spawned"
    /\ db_lock = NoTask
    /\ pc = [t \in Triggers |-> "idle"]
    /\ kind = [t \in Triggers |-> "none"]
    /\ observed = [t \in Triggers |-> FALSE]
    /\ sessMode = "none"
    /\ presult = "None"
    /\ NoSession
    /\ NoRequest
    /\ lastFailed = FALSE

\* No pure function is applied while the application runs.
NoFunctionCall ==
    /\ call = [fn |-> "none"]
    /\ returned = FALSE
    /\ rendered = << >>
    /\ artifact = FALSE
    /\ transcribed = << >>
    /\ duration_ms = 0

Init ==
    /\ AppInit
    /\ NoFunctionCall

(***************************************************************************)
(* Audio capture coordinator (crate::audio)                                *)
(***************************************************************************)
\* RecordingHandle::is_recording
is_recording == recording

\* audio::start_recording: opens the input device and begins buffering, or
\* fails with a device error and leaves no capture behind.
audio_start_recording(deviceOk, callback) ==
    IF deviceOk
    THEN /\ recording' = TRUE
         /\ captures' = captures + 1
         /\ levelCallback' = callback
    ELSE UNCHANGED <<recording, captures, levelCallback>>

\* audio::stop_recording: ends the capture and hands back the samples; it
\* fails only when no capture is active.
audio_stop_recording ==
    /\ recording' = FALSE
    /\ captures' = IF captures > 0 THEN captures - 1 ELSE 0
    /\ levelCallback' = FALSE

(***************************************************************************)
(* Tray (tray.rs)                                                          *)
(***************************************************************************)
\* update_tray_menu: a successful rebuild replaces the initial menu of
\* build_tray_menu, whose separate start and stop items are then gone.
update_tray_menu(ok) == menuStop' = (menuStop /\ ~ok)

\* The outcomes of a menu rebuild that make a difference.
MenuOutcomes == IF menuStop THEN BOOLEAN ELSE {TRUE}

\* Audio levels the capture reports, in hundredths: a quiet one and a good
\* one.
Levels == {10, 45}

\* update_tray_icon_for_level: the icon for a level.
update_tray_icon_for_level(level) ==
    IF level < 15 THEN "tray-red"
    ELSE IF level < 30 THEN "tray-yellow"
    ELSE IF level < 60 THEN "tray-green"
    ELSE "tray-blue"

LevelIcons == {update_tray_icon_for_level(level) : level \in Levels}

\* A level update that also declares the session over.
LevelEffectEndsSession(name) ==
    /\ icon' = name
    /\ status' = "Ready"
    /\ UNCHANGED <<recording, captures, levelCallback>>

\* update_tray_icon_for_level: tray.set_icon is all it does.
LevelEffect(name) ==
    /\ icon' = name
    /\ UNCHANGED <<status, recording, captures, levelCallback>>

\* The level callback toggle_recording hands to the start (hotkey.rs:81-85),
\* called by the capture while it runs, with no lock taken; the result of
\* the icon update is dropped.
level_callback(level, ok) ==
    /\ recording
    /\ levelCallback
    /\ IF ok
       THEN LevelEffect(update_tray_icon_for_level(level))
       ELSE UNCHANGED <<icon, status, recording, captures, levelCallback>>
    /\ UNCHANGED <<modes, active_mode_key, database, menuStop, settings, customMode,
                   lock, loaderPc, dbPc, db_lock, fnVars, pc, kind, observed, sessMode, presult,
                   lastFailed>>
    /\ UNCHANGED startVars
    /\ UNCHANGED sessVars
    /\ UNCHANGED callVars

(***************************************************************************)
(* AppState operations (state.rs)                                          *)
(***************************************************************************)
\* Entry bookkeeping of a call of start or stop by task t.
Called(t, name) ==
    /\ t \in Triggers
    /\ op' = name
    /\ pre' = status
    /\ preRec' = is_recording
    /\ afterFail' = lastFailed

\* start_recording_with_callback: last_context after the clipboard was
\* read as clip (state.rs:219-221).
CaptureContext(clip) ==
    IF settings.context_awareness THEN clip ELSE last_context

\* The handler of task t passes a level callback to the start: only
\* toggle_recording does (hotkey.rs:81-89); the others call start_recording.
WithLevelCallback(t) == kind[t] = "hotkey"

\* AppState::start_recording_with_callback with its guard made explicit.
StartCall(t, deviceOk, clip, busy) ==
    /\ Called(t, "start")
    /\ settings.context_awareness \/ clip = "None"
    /\ IF busy
       THEN /\ res' = "RecordingInProgress"
            /\ clip = "None"
            /\ UNCHANGED <<status, recording, captures, levelCallback, lastFailed>>
            /\ UNCHANGED startVars
       ELSE /\ last_context' = CaptureContext(clip)
            /\ audio_start_recording(deviceOk, WithLevelCallback(t))
            /\ IF deviceOk
               THEN /\ status' = "Recording"
                    /\ res' = "Ok"
                    /\ lastFailed' = FALSE
                    /\ startMode' = IF active_mode_key \in modes
                                    THEN active_mode_key ELSE "none"
                    /\ startContext' = IF settings.context_awareness
                                       THEN clip ELSE "None"
               ELSE /\ res' = "Audio"
                    /\ UNCHANGED <<status, lastFailed, startMode, startContext>>
    /\ post' = status'

\* A start that does not look at the recording handle.
start_recording_unguarded(t, deviceOk, clip) == StartCall(t, deviceOk, clip, FALSE)

\* A start that guards on the status instead of the recording handle.
start_recording_status_guard(t, deviceOk, clip) ==
    StartCall(t, deviceOk, clip, status = "Recording")

\* A start that refuses only while the pipeline runs.
start_recording_processing_guard(t, deviceOk, clip) ==
    StartCall(t, deviceOk, clip, status = "Processing")

\* AppState::start_recording_with_callback (and start_recording, which
\* passes no level callback).
start_recording_with_callback(t, deviceOk, clip) ==
    StartCall(t, deviceOk, clip, is_recording)

\* A stop that takes the samples but leaves the capture running.
stop_capture_keep_flag ==
    /\ UNCHANGED <<recording, captures, levelCallback>>

\* The capture step of AppState::stop_recording (state.rs:239).
stop_capture == audio_stop_recording

\* A handler that lets go of the state lock while stop_recording runs.
LockReleased(t) == NoTask

\* The MutexGuard the handler of task t holds across
\* state.stop_recording().await.
LockGuard(t) == t

\* AppState::stop_recording up to the call of process_recording
\* (state.rs:234-243), entered by task t with the lock in hand.
stop_recording_begin(t) ==
    /\ Called(t, "stop")
    /\ IF ~is_recording
       THEN /\ res' = "NoRecordingInProgress"
            /\ pc' = [pc EXCEPT ![t] = "after_stop"]
            /\ UNCHANGED <<status, recording, captures, levelCallback>>
       ELSE /\ stop_capture
            /\ status' = "Processing"
            /\ res' = "None"
            /\ pc' = [pc EXCEPT ![t] = "proc_mode"]
    /\ post' = status'
    /\ lock' = LockGuard(t)
    /\ UNCHANGED <<presult, sessMode, lastFailed, menuStop>>
    /\ UNCHANGED startVars

\* Frame of a pipeline step: only the task's position, the session's mode,
\* the pipeline result and the status may change.
ProcFrame ==
    UNCHANGED <<recording, captures, levelCallback, modes, active_mode_key, database, icon,
                menuStop, settings, customMode, lock, loaderPc, dbPc, db_lock, fnVars, kind,
                observed, req, obs, op, res, pre, preRec, post, afterFail,
                lastFailed, last_context, startMode, startContext>>

\* AppState::get_active_mode applied to the providers of the mode.
ModeSttProvider(key) ==
    IF key \in BuiltinModeKeys THEN BuiltinProviders.stt_provider
    ELSE customMode.stt_provider
ModeLlmProvider(key) ==
    IF key \in BuiltinModeKeys THEN BuiltinProviders.llm_provider
    ELSE customMode.llm_provider

\* process_recording: look up the active mode.
process_get_mode(t) ==
    /\ pc[t] = "proc_mode"
    /\ IF active_mode_key \in modes
       THEN /\ sessMode' = active_mode_key
            /\ pc' = [pc EXCEPT ![t] = "proc_save"]
            /\ UNCHANGED presult
       ELSE /\ presult' = "ModeNotFound"
            /\ pc' = [pc EXCEPT ![t] = "stop_ret"]
            /\ UNCHANGED sessMode
    /\ UNCHANGED status
    /\ UNCHANGED sessVars
    /\ ProcFrame

\* process_recording: create the audio directory and save the wav file.
process_save_audio(t, ok) ==
    /\ pc[t] = "proc_save"
    /\ IF ok
       THEN /\ pc' = [pc EXCEPT ![t] = "proc_stt"]
            /\ UNCHANGED presult
       ELSE /\ presult' = "Io"
            /\ pc' = [pc EXCEPT ![t] = "stop_ret"]
    /\ UNCHANGED <<status, sessMode>>
    /\ UNCHANGED sessVars
    /\ ProcFrame

\* AppState::get_stt_api_key: only OpenAI and Deepgram consult the keyring.
get_stt_api_key(provider, keyring) ==
    IF provider \in {"OpenAI", "Deepgram"} THEN keyring ELSE "None"

\* A model check that goes on without the model file.
ensure_model_unchecked(model) == "Ok"

\* stt::ensure_model: the path of a model file that exists or was
\* downloaded just now, else the error of the download.
ensure_model(model) == IF model = "download_failed" THEN "Transcription" ELSE "Ok"

\* A provider factory that hands OpenAI whatever key it was given.
create_stt_provider_no_key_check(provider, api_key, model) ==
    CASE provider = "WhisperCpp" -> ensure_model(model)
      [] provider = "WhisperServer" -> "Ok"
      [] provider = "OpenAI" -> "Ok"
      [] provider = "Deepgram" -> "Provider: not yet implemented"
      [] OTHER -> "Provider: unknown provider"

\* stt::create_stt_provider: "Ok" when a provider is built, else the error.
create_stt_provider(provider, api_key, model) ==
    CASE provider = "WhisperCpp" -> ensure_model(model)
      [] provider = "WhisperServer" -> "Ok"
      [] provider = "OpenAI" ->
             IF api_key = "Some" THEN "Ok" ELSE "Provider: requires an API key"
      [] provider = "Deepgram" -> "Provider: not yet implemented"
      [] OTHER -> "Provider: unknown provider"

\* ensure_model fetches the model file over the network when it is absent.
ModelFetched(provider, model) == provider = "WhisperCpp" /\ model /= "exists"

\* OpenAiCompatibleSttProvider::transcribe posts the audio to its server;
\* WhisperCppProvider::transcribe runs in the process.
RequestSent(provider) == provider \in {"WhisperServer", "OpenAI"}

\* process_recording: self.transcribe(...).await?  The keyring answers with
\* keyring, ensure_model finds the model in state model, and the provider,
\* once built, answers with reply.
process_transcribe(t, keyring, model, reply) ==
    /\ pc[t] = "proc_stt"
    /\ LET provider == ModeSttProvider(sessMode)
           api_key == get_stt_api_key(provider, keyring)
           created == IF api_key = "Error" THEN "Keyring"
                      ELSE create_stt_provider(provider, api_key, model)
           result == IF created /= "Ok" THEN created
                     ELSE IF reply = Failed THEN "Transcription" ELSE "Ok"
       IN  \* an input that is not consulted takes one value
           /\ provider \notin {"OpenAI", "Deepgram"} => keyring = "None"
           /\ (provider /= "WhisperCpp" \/ api_key = "Error") => model = "exists"
           /\ created /= "Ok" => reply = Failed
           /\ sttProvider' = provider
           /\ sttKey' = api_key
           /\ sttNet' = (\/ (api_key /= "Error" /\ ModelFetched(provider, model))
                         \/ (created = "Ok" /\ RequestSent(provider)))
           /\ sttModel' = IF provider = "WhisperCpp" /\ api_key /= "Error"
                          THEN model ELSE "none"
           /\ sttCalled' = (created = "Ok")
           /\ IF result = "Ok"
              THEN /\ transcript' = reply
                   /\ pc' = [pc EXCEPT ![t] = "proc_llm"]
                   /\ UNCHANGED presult
              ELSE /\ presult' = result
                   /\ pc' = [pc EXCEPT ![t] = "stop_ret"]
                   /\ UNCHANGED transcript
    /\ UNCHANGED <<status, sessMode, output, promptContext, llm, handoffs>>
    /\ ProcFrame

\* An LLM step that runs for every mode.
LlmStepAlways(key) == TRUE

\* process_recording: mode.ai_processing && !mode.prompt_template.is_empty()
LlmStepApplies(key) == ModeAiProcessing(key) /\ ~ModePromptEmpty(key)

\* AppState::get_api_key: only OpenAI and Anthropic consult the keyring.
get_api_key(provider, keyring) ==
    IF provider \in {"OpenAI", "Anthropic"} THEN keyring ELSE "None"

\* llm::create_llm_provider: the construction by provider kind, analogous
\* to the STT one.
create_llm_provider(provider, api_key) ==
    CASE provider = "Ollama" -> "Ok"
      [] provider \in {"OpenAI", "Anthropic"} ->
             IF api_key = "Some" THEN "Ok" ELSE "Provider: requires an API key"
      [] OTHER -> "Provider: unknown provider"

\* AppState::process_with_llm: "None" when the completion came back, else
\* the error it returned.
process_with_llm(provider, keyring, reply) ==
    LET api_key == get_api_key(provider, keyring)
        created == IF api_key = "Error" THEN "Keyring"
                   ELSE create_llm_provider(provider, api_key)
    IN  IF created /= "Ok" THEN created
        ELSE IF reply = Failed THEN "Llm" ELSE "None"

\* An LLM step that loses the transcript when the completion fails.
LlmOutputNoFallback(error, reply, raw) == IF error = "None" THEN reply ELSE "none"

\* process_recording: the match on process_with_llm's result
\* (state.rs:276-282).
LlmOutput(error, reply, raw) == IF error = "None" THEN reply ELSE raw

\* process_recording: the optional LLM step.
process_llm(t, keyring, reply) ==
    /\ pc[t] = "proc_llm"
    /\ IF LlmStepApplies(sessMode)
       THEN LET provider == ModeLlmProvider(sessMode)
                error == process_with_llm(provider, keyring, reply)
            IN  \* an input that is not consulted takes one value
                /\ provider \notin {"OpenAI", "Anthropic"} => keyring = "None"
                /\ error \notin {"None", "Llm"} => reply = Failed
                /\ llm' = IF error = "None" THEN "Completed" ELSE error
                /\ promptContext' = IF error \in {"None", "Llm"}
                                    THEN last_context ELSE "unused"
                /\ output' = LlmOutput(error, reply, transcript)
       ELSE /\ keyring = "None"
            /\ llm' = "skipped"
            /\ promptContext' = "unused"
            /\ output' = transcript
    /\ pc' = [pc EXCEPT ![t] = "proc_persist"]
    /\ UNCHANGED <<status, sessMode, presult, transcript, sttProvider, sttKey,
                   sttNet, sttModel, sttCalled, handoffs>>
    /\ ProcFrame

\* A pipeline that makes its latest handoff the first one.
HandoffFirst(made, to, text, paste, ok) ==
    <<[to |-> to, text |-> text, paste |-> paste, ok |-> ok]>> \o made

\* A text is handed to a collaborator: the history database or the
\* clipboard and paste.
Handoff(made, to, text, paste, ok) ==
    Append(made, [to |-> to, text |-> text, paste |-> paste, ok |-> ok])

\* A pipeline that returns the error of a collaborator.
Propagated(ok) == ok

\* `let _ = ...`: the collaborator's result is dropped, the pipeline goes on.
Dropped(ok) == TRUE

\* process_recording: insert the history item when there is a database,
\* under the database's own mutex, which the step takes and lets go
\* (state.rs:311-314); the result is dropped.
process_persist(t, ok) ==
    /\ pc[t] = "proc_persist"
    /\ database => db_lock = NoTask
    /\ ~database => ok
    /\ handoffs' = IF database
                   THEN Handoff(handoffs, "history", output, FALSE, ok)
                   ELSE handoffs
    /\ IF Dropped(ok)
       THEN /\ pc' = [pc EXCEPT ![t] = "proc_deliver"]
            /\ UNCHANGED presult
       ELSE /\ presult' = "Database"
            /\ pc' = [pc EXCEPT ![t] = "stop_ret"]
    /\ UNCHANGED <<status, sessMode, transcript, output, sttProvider, sttKey,
                   sttNet, sttModel, sttCalled, promptContext, llm>>
    /\ ProcFrame

\* process_recording: copy and paste (result dropped), status = Ready, Ok.
process_deliver(t, ok) ==
    /\ pc[t] = "proc_deliver"
    /\ handoffs' = Handoff(handoffs, "paste", output, settings.auto_paste, ok)
    /\ IF Dropped(ok)
       THEN /\ status' = "Ready"
            /\ presult' = "Ok"
       ELSE /\ presult' = "Io"
            /\ UNCHANGED status
    /\ pc' = [pc EXCEPT ![t] = "stop_ret"]
    /\ UNCHANGED <<sessMode, transcript, output, sttProvider, sttKey, sttNet,
                   sttModel, sttCalled, promptContext, llm>>
    /\ ProcFrame

\* A stop that leaves the status as the pipeline left it.
StatusAfterNoReset(result) == status

\* A stop that reports a failed pipeline as status Error.
StatusAfterError(result) == IF result /= "Ok" THEN "Error" ELSE status

\* The status stop_recording leaves behind process_recording's result
\* (state.rs:244-246).
StatusAfter(result) == IF result /= "Ok" THEN "Ready" ELSE status

\* A stop that swallows the pipeline's error.
ReturnedOk(result) == "Ok"

\* The value stop_recording returns: process_recording's result
\* (state.rs:247).
Returned(result) == result

\* AppState::stop_recording after process_recording returned.
stop_recording_end(t) ==
    /\ pc[t] = "stop_ret"
    /\ status' = StatusAfter(presult)
    /\ res' = Returned(presult)
    /\ post' = status'
    /\ lastFailed' = (presult /= "Ok")
    /\ presult' = "None"
    /\ pc' = [pc EXCEPT ![t] = "after_stop"]
    /\ UNCHANGED <<recording, captures, levelCallback, modes, active_mode_key, database, icon,
                   menuStop, settings, customMode, lock, loaderPc, dbPc, db_lock, fnVars, kind,
                   observed, req, obs, op, pre, preRec, afterFail, sessMode>>
    /\ UNCHANGED startVars
    /\ UNCHANGED sessVars

(***************************************************************************)
(* Startup tasks (lib.rs)                                                  *)
(***************************************************************************)
TaskFrame ==
    /\ UNCHANGED <<pc, kind, observed, sessMode, presult, lastFailed, settings>>
    /\ UNCHANGED startVars
    /\ UNCHANGED sessVars
    /\ ClearRequest

\* The load-modes task takes the state lock.
loader_lock ==
    /\ loaderPc = "spawned"
    /\ lock = NoTask
    /\ lock' = LoaderTask
    /\ loaderPc' = "loading"
    /\ UNCHANGED <<status, recording, captures, levelCallback, modes, active_mode_key, database,
                   icon, menuStop, dbPc, db_lock, fnVars, customMode>>
    /\ TaskFrame

\* AppState::load_modes under the lock, the menu update that follows it,
\* then the task ends.  The modes directory holds the custom mode's file or
\* not, and the file selects one of the provider pairs in customs.
load_modes(ok, customs) ==
    /\ loaderPc = "loading"
    /\ IF ok
       THEN /\ \E files \in SUBSET CustomModeKeys :
                  /\ modes' = BuiltinModeKeys \cup files
                  /\ IF files = {}
                     THEN UNCHANGED customMode
                     ELSE \E mode \in customs : customMode' = mode
            /\ active_mode_key' = IF active_mode_key \in modes'
                                  THEN active_mode_key ELSE "voice_to_text"
            /\ status' = "Ready"
       ELSE UNCHANGED <<modes, active_mode_key, status, customMode>>
    /\ \E menuOk \in MenuOutcomes : update_tray_menu(menuOk)
    /\ lock' = NoTask
    /\ loaderPc' = "done"
    /\ UNCHANGED <<recording, captures, levelCallback, database, icon, dbPc, db_lock, fnVars>>
    /\ TaskFrame

\* The database task: lock, AppState::init_database, unlock.
init_database(ok) ==
    /\ dbPc = "spawned"
    /\ lock = NoTask
    /\ database' = ok
    /\ dbPc' = "done"
    /\ UNCHANGED <<db_lock, fnVars>>
    /\ UNCHANGED <<status, recording, captures, levelCallback, modes, active_mode_key, icon,
                   menuStop, lock, loaderPc, customMode>>
    /\ TaskFrame

(***************************************************************************)
(* Trigger handlers (tray.rs, hotkey.rs, commands.rs)                      *)
(***************************************************************************)
\* A trigger event arrives and its handler task is spawned.
Fire(t, k) ==
    /\ pc[t] = "idle"
    /\ k = "menu_stop" => menuStop
    /\ pc' = [pc EXCEPT ![t] = "enter"]
    /\ kind' = [kind EXCEPT ![t] = k]
    /\ UNCHANGED <<status, recording, captures, levelCallback, modes, active_mode_key, database,
                   icon, menuStop, settings, customMode, lock, loaderPc, dbPc, db_lock, fnVars,
                   observed, sessMode, presult, lastFailed>>
    /\ UNCHANGED startVars
    /\ UNCHANGED sessVars
    /\ IF lock = NoTask THEN ClearRequest ELSE UNCHANGED callVars

\* The handler of task t turns into a request for a start or a stop, chosen
\* on the reading seenRec of is_recording().
Request(t, seenRec) ==
    /\ req' = kind[t]
    /\ obs' = seenRec

\* The handler task ends.
Finish(t) ==
    /\ pc' = [pc EXCEPT ![t] = "idle"]
    /\ kind' = [kind EXCEPT ![t] = "none"]
    /\ observed' = [observed EXCEPT ![t] = FALSE]

\* The start branch of a toggle: start, then show Recording and rebuild
\* the menu, or show Error.
StartBranch(t) ==
    /\ \E deviceOk \in BOOLEAN, clip \in ClipboardReads :
          start_recording_with_callback(t, deviceOk, clip)
    /\ IF res' = "Ok"
       THEN /\ icon' = "Recording"
            /\ \E menuOk \in MenuOutcomes : update_tray_menu(menuOk)
       ELSE /\ icon' = "Error"
            /\ UNCHANGED menuStop
    /\ Finish(t)
    /\ UNCHANGED <<lock, presult, sessMode>>

\* A handler that ends without calling start or stop, with result r.
NoCall(t, r) ==
    /\ op' = "none"
    /\ res' = r
    /\ pre' = status
    /\ preRec' = is_recording
    /\ post' = status
    /\ afterFail' = lastFailed
    /\ Finish(t)
    /\ UNCHANGED <<status, recording, captures, levelCallback, lock, lastFailed, presult, sessMode,
                   menuStop>>
    /\ UNCHANGED startVars

HandlerFrame ==
    UNCHANGED <<modes, active_mode_key, database, settings, customMode, loaderPc,
                dbPc, db_lock, fnVars>>

\* tray.rs handle_tray_click (also the menu's toggle and start items).
handle_tray_click(t) ==
    /\ pc[t] = "enter"
    /\ kind[t] = "tray"
    /\ lock = NoTask
    /\ Request(t, is_recording)
    /\ IF is_recording
       THEN /\ stop_recording_begin(t)
            /\ UNCHANGED <<icon, kind, observed>>
       ELSE StartBranch(t)
    /\ UNCHANGED sessVars
    /\ HandlerFrame

\* hotkey.rs toggle_recording: the first lock, which only reads the flag.
toggle_recording_observe(t) ==
    /\ pc[t] = "enter"
    /\ kind[t] = "hotkey"
    /\ lock = NoTask
    /\ observed' = [observed EXCEPT ![t] = is_recording]
    /\ pc' = [pc EXCEPT ![t] = "hk_act"]
    /\ UNCHANGED <<status, recording, captures, levelCallback, icon, menuStop, lock, lastFailed,
                   kind, presult, sessMode>>
    /\ UNCHANGED startVars
    /\ ClearRequest
    /\ UNCHANGED sessVars
    /\ HandlerFrame

\* hotkey.rs toggle_recording: the second lock, which acts on what was read.
toggle_recording_act(t) ==
    /\ pc[t] = "hk_act"
    /\ lock = NoTask
    /\ Request(t, observed[t])
    /\ IF observed[t]
       THEN /\ stop_recording_begin(t)
            /\ icon' = "Processing"
            /\ UNCHANGED <<kind, observed>>
       ELSE StartBranch(t)
    /\ UNCHANGED sessVars
    /\ HandlerFrame

\* tray.rs handle_menu_event, item "stop_recording".
handle_menu_stop(t) ==
    /\ pc[t] = "enter"
    /\ kind[t] = "menu_stop"
    /\ lock = NoTask
    /\ Request(t, is_recording)
    /\ IF is_recording
       THEN /\ stop_recording_begin(t)
            /\ UNCHANGED <<kind, observed>>
       ELSE NoCall(t, "None")
    /\ UNCHANGED icon
    /\ UNCHANGED sessVars
    /\ HandlerFrame

\* commands.rs start_recording.
cmd_start_recording(t) ==
    /\ pc[t] = "enter"
    /\ kind[t] = "cmd_start"
    /\ lock = NoTask
    /\ Request(t, FALSE)
    /\ \E deviceOk \in BOOLEAN, clip \in ClipboardReads :
          start_recording_with_callback(t, deviceOk, clip)
    /\ IF res' = "Ok"
       THEN \E iconOk \in BOOLEAN :
               IF iconOk
               THEN /\ icon' = "Recording"
                    /\ \E menuOk \in MenuOutcomes : update_tray_menu(menuOk)
               ELSE UNCHANGED <<icon, menuStop>>
       ELSE UNCHANGED <<icon, menuStop>>
    /\ Finish(t)
    /\ UNCHANGED <<lock, presult, sessMode>>
    /\ UNCHANGED sessVars
    /\ HandlerFrame

\* commands.rs stop_recording up to the await of AppState::stop_recording.
cmd_stop_recording(t, iconOk) ==
    /\ pc[t] = "enter"
    /\ kind[t] = "cmd_stop"
    /\ lock = NoTask
    /\ Request(t, TRUE)
    /\ IF iconOk
       THEN /\ stop_recording_begin(t)
            /\ icon' = "Processing"
            /\ UNCHANGED <<kind, observed>>
       ELSE /\ NoCall(t, "Tauri")
            /\ UNCHANGED icon
    /\ UNCHANGED sessVars
    /\ HandlerFrame

\* What each handler does once AppState::stop_recording has returned.
after_stop(t) ==
    /\ pc[t] = "after_stop"
    /\ lock = t
    /\ lock' = NoTask
    /\ IF kind[t] = "hotkey"
       THEN /\ pc' = [pc EXCEPT ![t] = "hk_update"]
            /\ UNCHANGED <<icon, menuStop, kind, observed>>
       ELSE /\ Finish(t)
            /\ icon' = status
            /\ \E menuOk \in MenuOutcomes : update_tray_menu(menuOk)
    /\ sessMode' = "none"
    /\ startMode' = "none"
    /\ startContext' = "None"
    /\ UNCHANGED <<status, recording, captures, levelCallback, lastFailed, presult, last_context>>
    /\ ClearRequest
    /\ ClearSession
    /\ HandlerFrame

\* hotkey.rs toggle_recording: the third lock, which refreshes the tray.
toggle_recording_update(t) ==
    /\ pc[t] = "hk_update"
    /\ lock = NoTask
    /\ icon' = status
    /\ \E menuOk \in MenuOutcomes : update_tray_menu(menuOk)
    /\ Finish(t)
    /\ UNCHANGED <<status, recording, captures, levelCallback, lock, lastFailed, presult, sessMode>>
    /\ UNCHANGED startVars
    /\ ClearRequest
    /\ UNCHANGED sessVars
    /\ HandlerFrame

(***************************************************************************)
(* Commands that take the lock, read or write AppState and return          *)
(* (commands.rs).  Each is one step; while another task holds the lock the *)
(* step is not enabled, which is the command waiting in state.lock().      *)
(***************************************************************************)
CommandFrame ==
    /\ UNCHANGED <<status, recording, captures, levelCallback, modes, database, icon, customMode,
                   lock, loaderPc, dbPc, db_lock, fnVars, pc, kind, observed, sessMode, presult,
                   lastFailed>>
    /\ UNCHANGED startVars
    /\ UNCHANGED sessVars
    /\ ClearRequest

\* commands.rs get_recording_status: what the command answers.
RecordingStatusResponse == [status |-> status, is_recording |-> is_recording]

\* commands.rs get_recording_status.
get_recording_status ==
    /\ lock = NoTask
    /\ RecordingStatusResponse \in [status : RecordingStatus, is_recording : BOOLEAN]
    /\ UNCHANGED <<active_mode_key, settings, menuStop>>
    /\ CommandFrame

\* AppState::get_active_mode: the mode the active key names, if any.
get_active_mode == IF active_mode_key \in modes THEN active_mode_key ELSE "none"

\* set_active_mode without the lookup of the key in the registry.
set_active_mode_unchecked(key, saved) ==
    /\ lock = NoTask
    /\ active_mode_key' = key
    /\ settings' = [settings EXCEPT !.active_mode_key = key]
    /\ IF saved
       THEN \E menuOk \in MenuOutcomes : update_tray_menu(menuOk)
       ELSE UNCHANGED menuStop
    /\ CommandFrame

\* commands.rs set_active_mode and the tray's mode items: a mode missing
\* from the registry is refused; else the key is set, the settings are
\* saved and, when that worked, the menu is rebuilt.
set_active_mode(key, saved) ==
    /\ lock = NoTask
    /\ IF key \in modes
       THEN /\ active_mode_key' = key
            /\ settings' = [settings EXCEPT !.active_mode_key = key]
            /\ IF saved
               THEN \E menuOk \in MenuOutcomes : update_tray_menu(menuOk)
               ELSE UNCHANGED menuStop
       ELSE /\ saved
            /\ UNCHANGED <<active_mode_key, settings, menuStop>>
    /\ CommandFrame

\* commands.rs update_settings: the settings are replaced, then saved.
update_settings(new) ==
    /\ lock = NoTask
    /\ settings' = new
    /\ UNCHANGED <<active_mode_key, menuStop>>
    /\ CommandFrame

(***************************************************************************)
(* Reprocessing a history item (commands.rs reprocess_history_item)        *)
(***************************************************************************)
ReprocessFrame ==
    /\ UNCHANGED <<status, recording, captures, levelCallback, modes, active_mode_key,
                   database, menuStop, settings, customMode, loaderPc, dbPc, fnVars,
                   sessMode, presult, lastFailed>>
    /\ UNCHANGED startVars
    /\ UNCHANGED sessVars
    /\ ClearRequest

\* The state lock, the icon for Processing and the test for a database
\* (commands.rs:226-234); an error returns and drops the guard.
reprocess_begin(t, iconOk) ==
    /\ pc[t] = "enter"
    /\ kind[t] = "reprocess"
    /\ lock = NoTask
    /\ icon' = IF iconOk THEN "Processing" ELSE icon
    /\ IF iconOk /\ database
       THEN /\ lock' = t
            /\ pc' = [pc EXCEPT ![t] = "reprocess_item"]
            /\ UNCHANGED <<kind, observed>>
       ELSE /\ Finish(t)
            /\ UNCHANGED lock
    /\ UNCHANGED db_lock
    /\ ReprocessFrame

\* db.lock().unwrap() with the state guard in hand (commands.rs:237, 297).
reprocess_db_lock(t) ==
    /\ pc[t] \in {"reprocess_item", "reprocess_update"}
    /\ lock = t
    /\ db_lock = NoTask
    /\ db_lock' = t
    /\ pc' = [pc EXCEPT ![t] = IF pc[t] = "reprocess_item"
                                THEN "reprocess_get" ELSE "reprocess_write"]
    /\ UNCHANGED <<lock, icon, kind, observed>>
    /\ ReprocessFrame

\* The item is read and the database guard dropped, the mode and the api
\* key are read and the state guard dropped, then the completion runs with
\* no lock held (commands.rs:236-275); every error returns.
reprocess_get_item(t, found, mode_key, keyring, reply) ==
    /\ pc[t] = "reprocess_get"
    /\ lock = t
    /\ db_lock = t
    /\ db_lock' = NoTask
    /\ lock' = NoTask
    /\ LET provider == ModeLlmProvider(mode_key)
           api_key == get_api_key(provider, keyring)
           completed == IF LlmStepApplies(mode_key)
                        THEN /\ create_llm_provider(provider, api_key) = "Ok"
                             /\ reply /= Failed
                        ELSE TRUE
       IN  IF found /\ mode_key \in modes /\ api_key /= "Error" /\ completed
           THEN /\ pc' = [pc EXCEPT ![t] = "reprocess_relock"]
                /\ UNCHANGED <<kind, observed>>
           ELSE Finish(t)
    /\ UNCHANGED icon
    /\ ReprocessFrame

\* A reprocess that takes the database's mutex first and the state lock
\* with it in hand.
reprocess_relock_db_first(t) ==
    /\ pc[t] = "reprocess_relock"
    /\ IF db_lock /= t
       THEN /\ db_lock = NoTask
            /\ db_lock' = t
            /\ UNCHANGED <<lock, pc>>
       ELSE /\ lock = NoTask
            /\ lock' = t
            /\ pc' = [pc EXCEPT ![t] = "reprocess_write"]
            /\ UNCHANGED db_lock
    /\ UNCHANGED <<icon, kind, observed>>
    /\ ReprocessFrame

\* The state lock again and the test for a database (commands.rs:291-295).
reprocess_relock(t) ==
    /\ pc[t] = "reprocess_relock"
    /\ lock = NoTask
    /\ IF database
       THEN /\ lock' = t
            /\ pc' = [pc EXCEPT ![t] = "reprocess_update"]
            /\ UNCHANGED <<kind, observed>>
       ELSE /\ Finish(t)
            /\ UNCHANGED lock
    /\ UNCHANGED <<db_lock, icon>>
    /\ ReprocessFrame

\* update_history under both guards, both dropped, then the icon for Ready
\* (commands.rs:296-304).
reprocess_update_history(t, ok, iconOk) ==
    /\ pc[t] = "reprocess_write"
    /\ lock = t
    /\ db_lock = t
    /\ db_lock' = NoTask
    /\ lock' = NoTask
    /\ icon' = IF ok /\ iconOk THEN "Ready" ELSE icon
    /\ Finish(t)
    /\ ReprocessFrame

(***************************************************************************)
(* Prompt templates (modes.rs render_prompt)                               *)
(***************************************************************************)
\* A text is a sequence of symbols: a placeholder of the template language
\* or a character that is no part of one.
TranscriptPlaceholder == "{{transcript}}"
LanguagePlaceholder == "{{language}}"
ContextPlaceholder == "{{context}}"
BlockOpen == "{{#if context}}"
BlockClose == "{{/if}}"
Placeholders == {TranscriptPlaceholder, LanguagePlaceholder, ContextPlaceholder,
                 BlockOpen, BlockClose}
Whitespace == {" ", "\n"}

\* Option<&str>
None == [some |-> FALSE, value |-> << >>]
Some(text) == [some |-> TRUE, value |-> text]

\* str::replace(from, to): every occurrence of from, left to right.
RECURSIVE replace(_, _, _)
replace(s, from, to) ==
    IF s = << >> THEN << >>
    ELSE (IF Head(s) = from THEN to ELSE <<Head(s)>>) \o replace(Tail(s), from, to)

\* Regex \{\{#if context\}\}[\s\S]*?\{\{/if\}\} with replace_all(_, ""):
\* leftmost matches that do not overlap, each from a {{#if context}} to the
\* first {{/if}} after it, over any characters, line ends included.
RECURSIVE replace_all(_)
replace_all(s) ==
    IF s = << >> THEN << >>
    ELSE LET closes == {j \in 2..Len(s) : s[j] = BlockClose}
         IN  IF Head(s) = BlockOpen /\ closes /= {}
             THEN LET first == CHOOSE j \in closes : \A k \in closes : j <= k
                  IN  replace_all(SubSeq(s, first + 1, Len(s)))
             ELSE <<Head(s)>> \o replace_all(Tail(s))

RECURSIVE trim_start(_)
trim_start(s) ==
    IF s /= << >> /\ Head(s) \in Whitespace THEN trim_start(Tail(s)) ELSE s

RECURSIVE trim_end(_)
trim_end(s) ==
    IF s /= << >> /\ s[Len(s)] \in Whitespace
    THEN trim_end(SubSeq(s, 1, Len(s) - 1)) ELSE s

\* str::trim
trim(s) == trim_end(trim_start(s))

\* render_prompt that leaves the {{/if}} of a block in place.
render_prompt_keep_close(template, transcript_, context, language) ==
    LET vars1 == replace(template, TranscriptPlaceholder, transcript_)
        vars2 == replace(vars1, LanguagePlaceholder, language)
        result == IF context.some
                  THEN replace(replace(vars2, BlockOpen, << >>),
                               ContextPlaceholder, context.value)
                  ELSE replace_all(vars2)
    IN  trim(result)

\* modes.rs render_prompt
render_prompt(template, transcript_, context, language) ==
    LET vars1 == replace(template, TranscriptPlaceholder, transcript_)
        vars2 == replace(vars1, LanguagePlaceholder, language)
        result == IF context.some
                  THEN replace(replace(replace(vars2, BlockOpen, << >>),
                                       BlockClose, << >>),
                               ContextPlaceholder, context.value)
                  ELSE replace_all(vars2)
    IN  trim(result)

\* Bounds of the texts render_prompt is applied to.
MaxTemplateLen == 4
TemplateSymbols == Placeholders \cup {"x", "\n"}
Templates == UNION {[1..n -> TemplateSymbols] : n \in 0..MaxTemplateLen}
\* A transcript and the clipboard can hold any text, the text of a
\* placeholder or of a block delimiter included; a language is a language
\* code.
TranscriptTexts ==
    {<<"h", "i">>, <<" ">>, <<LanguagePlaceholder, "h">>, <<BlockOpen>>,
     <<BlockClose, ContextPlaceholder>>}
LanguageTexts == {<<"e", "n">>}
ContextTexts == {<<"c">>, <<BlockClose, TranscriptPlaceholder>>}
Contexts == {None} \cup {Some(text) : text \in ContextTexts}

RenderCalls ==
    [fn : {"render_prompt"}, template : Templates, transcript : TranscriptTexts,
     context : Contexts, language : LanguageTexts]

\* The frame of a function call: the application is not running.
FunctionFrame ==
    /\ UNCHANGED <<status, recording, captures, levelCallback, modes, active_mode_key,
                   database, icon, menuStop, settings, customMode, lock, loaderPc, dbPc,
                   db_lock, pc, kind, observed, sessMode, presult, lastFailed>>
    /\ UNCHANGED startVars
    /\ UNCHANGED sessVars
    /\ UNCHANGED callVars

\* One call of render_prompt.
render_prompt_call ==
    /\ call.fn = "render_prompt"
    /\ ~returned
    /\ rendered' = render_prompt(call.template, call.transcript, call.context,
                                 call.language)
    /\ returned' = TRUE
    /\ UNCHANGED <<call, artifact, transcribed, duration_ms>>
    /\ FunctionFrame

(***************************************************************************)
(* Artifact filter                                                         *)
(***************************************************************************)
\* Lowercase letter of each uppercase letter; any other character is its
\* own lowercase.
LowercaseOf ==
    "A" :> "a" @@
    "B" :> "b" @@
    "C" :> "c" @@
    "D" :> "d" @@
    "E" :> "e" @@
    "F" :> "f" @@
    "G" :> "g" @@
    "H" :> "h" @@
    "I" :> "i" @@
    "J" :> "j" @@
    "K" :> "k" @@
    "L" :> "l" @@
    "M" :> "m" @@
    "N" :> "n" @@
    "O" :> "o" @@
    "P" :> "p" @@
    "Q" :> "q" @@
    "R" :> "r" @@
    "S" :> "s" @@
    "T" :> "t" @@
    "U" :> "u" @@
    "V" :> "v" @@
    "W" :> "w" @@
    "X" :> "x" @@
    "Y" :> "y" @@
    "Z" :> "z"

to_lowercase(s) ==
    [i \in 1..Len(s) |-> IF s[i] \in DOMAIN LowercaseOf THEN LowercaseOf[s[i]] ELSE s[i]]

\* The markers a recogniser emits for sound that is not speech.
ArtifactVocabulary ==
    {<<"b", "l", "a", "n", "k", "_", "a", "u", "d", "i", "o">>,
     <<"b", "l", "a", "n", "k", " ", "a", "u", "d", "i", "o">>,
     <<"s", "i", "l", "e", "n", "c", "e">>,
     <<"m", "u", "s", "i", "c">>,
     <<"a", "p", "p", "l", "a", "u", "s", "e">>,
     <<"l", "a", "u", "g", "h", "t", "e", "r">>,
     <<"i", "n", "a", "u", "d", "i", "b", "l", "e">>,
     <<"n", "o", "-", "s", "p", "e", "e", "c", "h">>,
     <<"n", "o", "-", "a", "u", "d", "i", "o">>}

\* A text of at least two characters that opens with "[" and closes with
\* "]", or opens with "(" and closes with ")".
BracketWrapped(s) ==
    /\ Len(s) >= 2
    /\ \/ s[1] = "[" /\ s[Len(s)] = "]"
       \/ s[1] = "(" /\ s[Len(s)] = ")"

\* The filter with a vocabulary lookup on the inner content as it is spelt.
isNonSpeechArtifactCaseSensitive(segmentText) ==
    LET trimmed == trim(segmentText)
    IN  IF trimmed = << >> THEN TRUE
        ELSE IF ~BracketWrapped(trimmed) THEN FALSE
        ELSE SubSeq(trimmed, 2, Len(trimmed) - 1) \in ArtifactVocabulary

\* isNonSpeechArtifact(segmentText): trim, then an empty text is an
\* artifact, a text that is not bracket-wrapped is speech, and a wrapped one
\* is an artifact when its lowercased inner content is in the vocabulary.
isNonSpeechArtifact(segmentText) ==
    LET trimmed == trim(segmentText)
    IN  IF trimmed = << >> THEN TRUE
        ELSE IF ~BracketWrapped(trimmed) THEN FALSE
        ELSE to_lowercase(SubSeq(trimmed, 2, Len(trimmed) - 1)) \in ArtifactVocabulary

\* Segments the filter is applied to: an inner text, bare or between an
\* opening and a closing character, with or without blanks around it.
InnerTexts ==
    {<<"B", "L", "A", "N", "K", "_", "A", "U", "D", "I", "O">>,
     <<"b", "l", "a", "n", "k", " ", "a", "u", "d", "i", "o">>,
     <<"B", "l", "a", "n", "k", "_", "A", "u", "d", "i", "o">>,
     <<"m", "u", "s", "i", "c">>,
     <<"M", "U", "S", "I", "C">>,
     <<"s", "i", "l", "e", "n", "c", "e">>,
     <<"a", "p", "p", "l", "a", "u", "s", "e">>,
     <<"l", "a", "u", "g", "h", "t", "e", "r">>,
     <<"i", "n", "a", "u", "d", "i", "b", "l", "e">>,
     <<"n", "o", "-", "s", "p", "e", "e", "c", "h">>,
     <<"n", "o", "-", "a", "u", "d", "i", "o">>,
     <<"c", "u", "s", "t", "o", "m", " ", "t", "a", "g">>,
     <<"I", " ", "l", "i", "k", "e", " ", "m", "u", "s", "i", "c">>,
     <<" ", "m", "u", "s", "i", "c">>,
     <<"m", "u", "s", "i", "c", "a", "l">>,
     << >>}
Opening == {<< >>, <<"[">>, <<"(">>}
Closing == {<< >>, <<"]">>, <<")">>}
Padding == {<< >>, <<" ">>, <<"\n">>}
Segments ==
    {before \o open \o inner \o close \o after :
        before \in Padding, open \in Opening, inner \in InnerTexts,
        close \in Closing, after \in Padding}

ArtifactCalls == [fn : {"isNonSpeechArtifact"}, segment : Segments]

\* One call of the filter.
isNonSpeechArtifact_call ==
    /\ call.fn = "isNonSpeechArtifact"
    /\ ~returned
    /\ artifact' = isNonSpeechArtifact(call.segment)
    /\ returned' = TRUE
    /\ UNCHANGED <<call, rendered, transcribed, duration_ms>>
    /\ FunctionFrame

(***************************************************************************)
(* Local transcription (providers/stt.rs WhisperCppProvider)               *)
(***************************************************************************)
\* Result<String> of full_get_segment_text(i)
Ok(segment) == [ok |-> TRUE, segment |-> segment]
Err == [ok |-> FALSE, segment |-> << >>]

\* The loop over the segments: the text of every segment that could be
\* read is appended to what was collected so far.
RECURSIVE push_segments(_)
push_segments(results) ==
    IF results = << >> THEN << >>
    ELSE (IF Head(results).ok THEN Head(results).segment ELSE << >>)
            \o push_segments(Tail(results))

\* WhisperCppProvider::transcribe once the recogniser has run: collect the
\* segments and trim the text.
transcribe(results) == trim(push_segments(results))

\* Bounds of the recognitions transcribe is applied to.
MaxSegments == 2
RecognisedTexts ==
    {<<" ", "h", "i">>, <<" ", "y", "o", "u", "\n">>,
     <<" ", "[", "B", "L", "A", "N", "K", "_", "A", "U", "D", "I", "O", "]">>,
     <<"(", "m", "u", "s", "i", "c", ")">>,
     <<" ">>}
SegmentResults == {Ok(segment) : segment \in RecognisedTexts} \cup {Err}
Recognitions == UNION {[1..n -> SegmentResults] : n \in 0..MaxSegments}
TranscribeCalls == [fn : {"transcribe"}, results : Recognitions]

\* One call of transcribe.
transcribe_call ==
    /\ call.fn = "transcribe"
    /\ ~returned
    /\ transcribed' = transcribe(call.results)
    /\ returned' = TRUE
    /\ UNCHANGED <<call, rendered, artifact, duration_ms>>
    /\ FunctionFrame

(***************************************************************************)
(* Duration of a capture (crate::audio calculate_duration_ms)              *)
(***************************************************************************)
\* The capture's fixed sample rate, in samples per second.
SAMPLE_RATE == 16000

\* The division taken before the multiplication.
calculate_duration_ms_divide_first(num_samples) ==
    (num_samples \div SAMPLE_RATE) * 1000

\* audio::calculate_duration_ms(samples.len()): samples * 1000 / rate in
\* integer arithmetic.  The product of a length that a sample vector in
\* memory can have stays within a 64-bit usize.
calculate_duration_ms(num_samples) ==
    (num_samples * 1000) \div SAMPLE_RATE

\* Lengths of the captured sample vector: nothing, a part of a millisecond
\* up to a few seconds, and as many samples as two minutes hold.
SampleCounts ==
    (0..40) \cup {8000, 15999, 16000, 16001, 31999, 32000, 32001, 48008}
       \cup {SAMPLE_RATE * 120}
DurationCalls == [fn : {"calculate_duration_ms"}, samples : SampleCounts]

\* process_recording takes the duration of the samples stop handed it.
calculate_duration_ms_call ==
    /\ call.fn = "calculate_duration_ms"
    /\ ~returned
    /\ duration_ms' = calculate_duration_ms(call.samples)
    /\ returned' = TRUE
    /\ UNCHANGED <<call, rendered, artifact, transcribed>>
    /\ FunctionFrame

(***************************************************************************)
(* Specification                                                           *)
(***************************************************************************)
\* The collaborators' answers explored together with every interleaving of
\* the handlers: a custom mode on the built-in providers, a model that is in
\* place, one transcript and one completion, or a failed call.
NominalModes == {BuiltinProviders}
NominalKeyring == {"None"}
NominalModels == {"exists"}
NominalReplies == {Failed, "hello"}
NominalCompletions == LlmTexts

\* A failed completion, history insert or paste is absorbed by the pipeline,
\* and a database that fails to open is a session that ran before it was
\* opened: here these calls succeed, and PipelineSpec lets them fail.
NominalOutcomes == {TRUE}

\* Settings that leave context awareness at its default and the stored
\* key of the active mode as it is.
NominalSettings ==
    {new \in Settings :
        ~new.context_awareness /\ new.active_mode_key = settings.active_mode_key}

Next ==
    \/ loader_lock
    \/ \E ok \in BOOLEAN : load_modes(ok, NominalModes)
    \/ \E ok \in NominalOutcomes : init_database(ok)
    \/ \E t \in Triggers, k \in TriggerKinds : Fire(t, k)
    \/ \E t \in Triggers : handle_tray_click(t)
    \/ \E t \in Triggers : toggle_recording_observe(t)
    \/ \E t \in Triggers : toggle_recording_act(t)
    \/ \E t \in Triggers : handle_menu_stop(t)
    \/ \E t \in Triggers : cmd_start_recording(t)
    \/ \E t \in Triggers, iconOk \in BOOLEAN : cmd_stop_recording(t, iconOk)
    \/ \E t \in Triggers : process_get_mode(t)
    \/ \E t \in Triggers, ok \in BOOLEAN : process_save_audio(t, ok)
    \/ \E t \in Triggers, keyring \in NominalKeyring, model \in NominalModels,
          reply \in NominalReplies : process_transcribe(t, keyring, model, reply)
    \/ \E t \in Triggers, keyring \in NominalKeyring, reply \in NominalCompletions :
          process_llm(t, keyring, reply)
    \/ \E t \in Triggers, ok \in NominalOutcomes : process_persist(t, ok)
    \/ \E t \in Triggers, ok \in NominalOutcomes : process_deliver(t, ok)
    \/ \E t \in Triggers : stop_recording_end(t)
    \/ \E t \in Triggers : after_stop(t)
    \/ \E t \in Triggers : toggle_recording_update(t)

\* The settings name a built-in mode.  The custom mode's key, which may
\* name no mode once the modes are loaded, is stored at the start of
\* CommandSpec, SessionSpec and PipelineSpec.
SpecInit ==
    /\ Init
    /\ active_mode_key \in BuiltinModeKeys

Spec == SpecInit /\ [][Next]_vars

\* Two handler tasks next to the commands of the frontend and the level
\* callback of the capture: a status query, a change of the active mode,
\* an update of the settings and a level report can arrive at any time.
SessionTask == 2
CommandTasks == {SessionTask, SessionTask + 1}

NextCommands ==
    \/ loader_lock
    \/ \E ok \in BOOLEAN : load_modes(ok, NominalModes)
    \/ \E ok \in NominalOutcomes : init_database(ok)
    \/ \E t \in CommandTasks, k \in TriggerKinds : Fire(t, k)
    \/ \E t \in CommandTasks : handle_tray_click(t)
    \/ \E t \in CommandTasks : toggle_recording_observe(t)
    \/ \E t \in CommandTasks : toggle_recording_act(t)
    \/ \E t \in CommandTasks : handle_menu_stop(t)
    \/ \E t \in CommandTasks : cmd_start_recording(t)
    \/ \E t \in CommandTasks, iconOk \in BOOLEAN : cmd_stop_recording(t, iconOk)
    \/ \E t \in CommandTasks : process_get_mode(t)
    \/ \E t \in CommandTasks, ok \in BOOLEAN : process_save_audio(t, ok)
    \/ \E t \in CommandTasks, keyring \in NominalKeyring, model \in NominalModels,
          reply \in NominalReplies : process_transcribe(t, keyring, model, reply)
    \/ \E t \in CommandTasks, keyring \in NominalKeyring, reply \in NominalCompletions :
          process_llm(t, keyring, reply)
    \/ \E t \in CommandTasks, ok \in NominalOutcomes : process_persist(t, ok)
    \/ \E t \in CommandTasks, ok \in NominalOutcomes : process_deliver(t, ok)
    \/ \E t \in CommandTasks : stop_recording_end(t)
    \/ \E t \in CommandTasks : after_stop(t)
    \/ \E t \in CommandTasks : toggle_recording_update(t)
    \/ get_recording_status
    \/ \E key \in SettingsModeKeys, saved \in BOOLEAN : set_active_mode(key, saved)
    \/ \E new \in NominalSettings : update_settings(new)
    \/ \E level \in Levels, ok \in BOOLEAN : level_callback(level, ok)

CommandSpec == Init /\ [][NextCommands]_vars

\* One handler task at a time next to the commands that change what a
\* session reads: the active mode and every setting, context awareness
\* included.
NextSession ==
    \/ loader_lock
    \/ \E ok \in BOOLEAN : load_modes(ok, NominalModes)
    \/ \E ok \in NominalOutcomes : init_database(ok)
    \/ \E k \in TriggerKinds : Fire(SessionTask, k)
    \/ handle_tray_click(SessionTask)
    \/ toggle_recording_observe(SessionTask)
    \/ toggle_recording_act(SessionTask)
    \/ handle_menu_stop(SessionTask)
    \/ cmd_start_recording(SessionTask)
    \/ \E iconOk \in BOOLEAN : cmd_stop_recording(SessionTask, iconOk)
    \/ process_get_mode(SessionTask)
    \/ \E ok \in BOOLEAN : process_save_audio(SessionTask, ok)
    \/ \E keyring \in NominalKeyring, model \in NominalModels,
          reply \in NominalReplies :
          process_transcribe(SessionTask, keyring, model, reply)
    \/ \E keyring \in NominalKeyring, reply \in {Failed} \cup NominalCompletions :
          process_llm(SessionTask, keyring, reply)
    \/ \E ok \in NominalOutcomes : process_persist(SessionTask, ok)
    \/ \E ok \in NominalOutcomes : process_deliver(SessionTask, ok)
    \/ stop_recording_end(SessionTask)
    \/ after_stop(SessionTask)
    \/ toggle_recording_update(SessionTask)
    \/ \E key \in SettingsModeKeys, saved \in BOOLEAN : set_active_mode(key, saved)
    \/ \E new \in Settings : update_settings(new)

SessionSpec == Init /\ [][NextSession]_vars

\* One handler task at a time, with every answer of the collaborators: any
\* provider pair in the custom mode, any keyring and model state, any text.
NextPipeline ==
    \/ loader_lock
    \/ \E ok \in BOOLEAN : load_modes(ok, CustomModes)
    \/ \E ok \in BOOLEAN : init_database(ok)
    \/ \E k \in TriggerKinds : Fire(SessionTask, k)
    \/ handle_tray_click(SessionTask)
    \/ toggle_recording_observe(SessionTask)
    \/ toggle_recording_act(SessionTask)
    \/ handle_menu_stop(SessionTask)
    \/ cmd_start_recording(SessionTask)
    \/ \E iconOk \in BOOLEAN : cmd_stop_recording(SessionTask, iconOk)
    \/ process_get_mode(SessionTask)
    \/ \E ok \in BOOLEAN : process_save_audio(SessionTask, ok)
    \/ \E keyring \in KeyringOutcomes, model \in ModelOutcomes,
          reply \in {Failed} \cup Transcripts :
          process_transcribe(SessionTask, keyring, model, reply)
    \/ \E keyring \in KeyringOutcomes, reply \in {Failed} \cup LlmTexts :
          process_llm(SessionTask, keyring, reply)
    \/ \E ok \in BOOLEAN : process_persist(SessionTask, ok)
    \/ \E ok \in BOOLEAN : process_deliver(SessionTask, ok)
    \/ stop_recording_end(SessionTask)
    \/ after_stop(SessionTask)
    \/ toggle_recording_update(SessionTask)

PipelineSpec == Init /\ [][NextPipeline]_vars

\* Two tasks, each the handler of the hotkey, of a click on the tray icon
\* or a reprocess of a history item, next to the startup tasks and the
\* status query.  The state lock is a
\* tokio Mutex, which hands the lock to its waiters in the order they
\* arrived, and the runtime polls every task that can go on: a step that
\* is possible again and again is taken.
ReprocessKind == "reprocess"
FairKinds == {"hotkey", "tray", ReprocessKind}

TaskStep(t) ==
    \/ handle_tray_click(t)
    \/ toggle_recording_observe(t)
    \/ toggle_recording_act(t)
    \/ process_get_mode(t)
    \/ \E ok \in BOOLEAN : process_save_audio(t, ok)
    \/ \E keyring \in NominalKeyring, model \in NominalModels,
          reply \in NominalReplies : process_transcribe(t, keyring, model, reply)
    \/ \E keyring \in NominalKeyring, reply \in NominalCompletions :
          process_llm(t, keyring, reply)
    \/ \E ok \in NominalOutcomes : process_persist(t, ok)
    \/ \E ok \in NominalOutcomes : process_deliver(t, ok)
    \/ stop_recording_end(t)
    \/ after_stop(t)
    \/ toggle_recording_update(t)
    \/ \E iconOk \in BOOLEAN : reprocess_begin(t, iconOk)
    \/ reprocess_db_lock(t)
    \/ \E found \in BOOLEAN, mode_key \in SettingsModeKeys, keyring \in NominalKeyring,
          reply \in NominalReplies : reprocess_get_item(t, found, mode_key, keyring, reply)
    \/ reprocess_relock(t)
    \/ \E ok \in BOOLEAN, iconOk \in BOOLEAN : reprocess_update_history(t, ok, iconOk)

LoaderStep ==
    \/ loader_lock
    \/ \E ok \in BOOLEAN : load_modes(ok, NominalModes)

DatabaseStep == \E ok \in NominalOutcomes : init_database(ok)

NextFair ==
    \/ LoaderStep
    \/ DatabaseStep
    \/ \E t \in CommandTasks, k \in FairKinds : Fire(t, k)
    \/ \E t \in CommandTasks : TaskStep(t)
    \/ get_recording_status

FairInit ==
    /\ Init
    /\ active_mode_key = "voice_to_text"

Fairness ==
    /\ \A t \in CommandTasks : SF_vars(TaskStep(t))
    /\ SF_vars(LoaderStep)
    /\ SF_vars(DatabaseStep)

FairSpec == FairInit /\ [][NextFair]_vars /\ Fairness

\* The pure functions, each applied once to arguments drawn from the
\* bounded sets above while the application is in its initial state.
FunctionInit ==
    /\ AppInit
    /\ active_mode_key = "voice_to_text"
    /\ call \in RenderCalls \cup ArtifactCalls \cup TranscribeCalls \cup DurationCalls
    /\ returned = FALSE
    /\ rendered = << >>
    /\ artifact = FALSE
    /\ transcribed = << >>
    /\ duration_ms = 0

NextFunction ==
    \/ render_prompt_call
    \/ isNonSpeechArtifact_call
    \/ transcribe_call
    \/ calculate_duration_ms_call

FunctionSpec == FunctionInit /\ [][NextFunction]_vars


(***************************************************************************)
(* Properties                                                              *)
(***************************************************************************)
PipelinePcs == {"proc_mode", "proc_save", "proc_stt", "proc_llm", "proc_persist",
                "proc_deliver", "stop_ret"}
InPipeline(t) == pc[t] \in PipelinePcs
StopReturned == op = "stop" /\ res /= "None"

\* C1: at any time the open captures and the running pipelines together are
\* at most one session: no second capture is started while one is capturing
\* or while a pipeline runs.
C1_AtMostOneSession ==
    captures + Cardinality({t \in Triggers : InPipeline(t)}) <= 1

\* A start was attempted during a capture and refused.
C1_Witness ==
    /\ captures = 1
    /\ op = "start"
    /\ res = "RecordingInProgress"

\* C2: of the starts that race from idle, the one that runs while no capture
\* is active succeeds (the device permitting) and moves status to Recording;
\* one that runs once a capture is active fails with RecordingInProgress,
\* changes no status and opens no second capture.
C2_RaceOneWinner ==
    /\ (op = "start" /\ ~preRec /\ res /= "Audio")
          => (res = "Ok" /\ post = "Recording" /\ captures = 1)
    /\ (op = "start" /\ preRec)
          => (res = "RecordingInProgress" /\ post = pre /\ captures = 1)

\* A hotkey press that read "not recording" lost the race to another start.
C2_Witness ==
    /\ req = "hotkey"
    /\ op = "start"
    /\ ~obs
    /\ preRec
    /\ res = "RecordingInProgress"

\* C3: a stop called while status is Ready, Loading or Error fails with
\* NoRecordingInProgress and leaves status unchanged.
C3_StopRejectedWhenIdle ==
    (op = "stop" /\ pre \in {"Ready", "Loading", "Error"})
       => (res = "NoRecordingInProgress" /\ post = pre)

C5_NoStaleObservation ==
    (req \in {"tray", "hotkey", "menu_stop"} /\ op /= "none") => obs = preRec

\* C6: a request whose precondition fails gets the precondition failure, and
\* no request ends without an operation and without an error.
C6_NoSilentNoOp ==
    /\ (op = "start" /\ preRec) => res = "RecordingInProgress"
    /\ (op = "stop" /\ ~preRec) => res = "NoRecordingInProgress"
    /\ (req /= "none" /\ op = "none") => res /= "None"

\* C7 as stated: a stop called while recording ends in Ready on success and
\* in Error on a pipeline failure.
C7_ErrorOnFailure ==
    (StopReturned /\ preRec)
       => /\ res = "Ok" => post = "Ready"
          /\ res /= "Ok" => post = "Error"

\* C7 amended: a stop called while recording ends in Ready whether the
\* pipeline succeeds or fails, and a pipeline failure is returned to the
\* caller as the error.
C7_ReadyOnEitherOutcome ==
    (StopReturned /\ preRec)
       => /\ post = "Ready"
          /\ res \in PipelineErrors \cup {"Ok"}
          /\ lastFailed <=> res \in PipelineErrors

\* A stop whose pipeline failed has returned the error with status Ready.
C7_Witness ==
    /\ StopReturned
    /\ preRec
    /\ res \in PipelineErrors
    /\ post = "Ready"

\* C8: when a stop has returned, status is not Processing, and status is
\* never Processing while the state lock is free.
C8_NotProcessingAfterStop ==
    /\ StopReturned => (post /= "Processing" /\ status /= "Processing")
    /\ lock = NoTask => status /= "Processing"

\* A stop has returned an error of the pipeline.
C8_Witness ==
    /\ StopReturned
    /\ res = "Io"
    /\ status /= "Processing"

C10_StartAfterFailure ==
    (op = "start" /\ afterFail /\ res /= "Audio")
       => (res = "Ok" /\ post = "Recording" /\ recording)

\* The first start after a failed session has succeeded.
C10_Witness ==
    /\ op = "start"
    /\ afterFail
    /\ res = "Ok"
    /\ status = "Recording"

(***************************************************************************)
(* Status queries and the lock                                             *)
(***************************************************************************)
\* C11: while a stop pipeline is in flight a status query completes without
\* waiting for it, and its answer is Processing.
C11_StatusNeverBlocks ==
    (\E t \in Triggers : InPipeline(t) /\ status = "Processing")
       => (ENABLED get_recording_status
           /\ RecordingStatusResponse.status = "Processing")

\* The session state a start, a stop, set_active_mode, update_settings or
\* a startup task writes.
SessionState ==
    <<recording, captures, modes, customMode, active_mode_key, settings, database>>

C13_StatusFollowsGraph ==
    [][status' /= status
          => <<status, status'>> \in {<<"Loading", "Ready">>,
                                      <<"Ready", "Recording">>,
                                      <<"Recording", "Processing">>,
                                      <<"Processing", "Ready">>,
                                      <<"Processing", "Error">>,
                                      <<"Error", "Recording">>}]_vars

(***************************************************************************)
(* The result pipeline                                                     *)
(***************************************************************************)
\* The LLM step was taken and did not come back with a completion.
LlmFailed == llm \in {"Keyring", "Llm"} \cup ProviderErrors

\* The collaborators handed to, in the order of the handoffs.
HandoffOrder == [i \in DOMAIN handoffs |-> handoffs[i].to]

\* The text was handed to the collaborator named to.
HandedTo(to, text) ==
    \E i \in DOMAIN handoffs : handoffs[i].to = to /\ handoffs[i].text = text

C15_NoLlmWhenDisabled ==
    (sessMode /= "none" /\ ~ModeAiProcessing(sessMode))
       => /\ llm \in {"none", "skipped"}
          /\ (StopReturned /\ res = "Ok")
                => (output = transcript /\ transcript \in Transcripts
                    /\ llm = "skipped")

\* A voice_to_text session has returned its transcript.
C15_Witness ==
    /\ StopReturned
    /\ preRec
    /\ sessMode = "voice_to_text"
    /\ res = "Ok"
    /\ output = "hello"
    /\ llm = "skipped"

\* C16: when the history insert or the paste fails, stop still returns the
\* final output as success and status is Ready.
C16_HandoffFailureAbsorbed ==
    (StopReturned /\ \E i \in DOMAIN handoffs : ~handoffs[i].ok)
       => /\ res = "Ok"
          /\ post = "Ready"
          /\ status = "Ready"
          /\ output \in Transcripts \cup LlmTexts
          /\ HandedTo("paste", output)

\* The insert and the paste both failed and stop returned success.
C16_Witness ==
    /\ StopReturned
    /\ Len(handoffs) = 2
    /\ \A i \in DOMAIN handoffs : ~handoffs[i].ok
    /\ res = "Ok"
    /\ status = "Ready"

\* The pipeline of a session has set status Ready.
PipelineSucceeded ==
    \/ \E t \in Triggers : InPipeline(t) /\ status = "Ready"
    \/ StopReturned /\ res = "Ok"

C18_NoRequestWithoutCredential ==
    /\ (StopReturned /\ sttProvider = "OpenAI" /\ sttKey = "None")
          => /\ res = "Provider: requires an API key"
             /\ ~sttNet
             /\ transcript = "none"
    /\ (sttNet /\ sttProvider \in {"OpenAI", "Deepgram"}) => sttKey = "Some"

\* A session on OpenAI without a key has failed.
C18_Witness ==
    /\ StopReturned
    /\ preRec
    /\ sttProvider = "OpenAI"
    /\ sttKey = "None"
    /\ res = "Provider: requires an API key"
    /\ status = "Ready"

\* C19: a session whose mode selects Deepgram or a custom STT provider fails
\* with the unsupported-provider error before any network request and
\* before the capture device was opened for it.
C19_UnsupportedBeforeDevice ==
    (StopReturned /\ sttProvider \in {"Deepgram", "Custom"} /\ sttKey /= "Error")
       => /\ res \in {"Provider: not yet implemented", "Provider: unknown provider"}
          /\ ~sttNet
          /\ ~preRec

\* C20: when the mode's LLM provider is of an unknown kind, stop returns the
\* unsupported-provider error.
C20_UnsupportedLlmSurfaces ==
    (StopReturned /\ llm = "Provider: unknown provider")
       => res = "Provider: unknown provider"

(***************************************************************************)
(* The local model                                                         *)
(***************************************************************************)
\* C21: on the whisper.cpp path the provider's transcribe is invoked only
\* with the model file in place, a file that was absent was fetched over the
\* network first, and a failed download ends the session with an error, no
\* transcription attempted and no transcript.
C21_TranscribeOnlyWithModel ==
    sttProvider = "WhisperCpp"
       => /\ sttCalled => sttModel \in {"exists", "downloaded"}
          /\ sttModel = "downloaded" => sttNet
          /\ sttModel = "download_failed"
                => /\ ~sttCalled
                   /\ transcript = "none"
                   /\ llm = "none"
                   /\ handoffs = << >>
                   /\ StopReturned => res = "Transcription"

\* A download failed and the session has ended with the error.
C21_Witness ==
    /\ StopReturned
    /\ sttProvider = "WhisperCpp"
    /\ sttModel = "download_failed"
    /\ res = "Transcription"
    /\ status = "Ready"

(***************************************************************************)
(* What a session takes from its start                                     *)
(***************************************************************************)
\* C22: the mode a pipeline applies is the mode that was active when the
\* start of its session succeeded.
C22_ModeFixedAtStart ==
    (sessMode /= "none" /\ startMode /= "none") => sessMode = startMode

\* C23: the context handed to the prompt renderer is the clipboard snapshot
\* the session's own start took when context awareness was on, and none
\* when it was off.
C23_ContextOfOwnStart ==
    promptContext /= "unused" => promptContext = startContext

(***************************************************************************)
(* The final output                                                        *)
(***************************************************************************)
\* C24: an output that stop returns as success is not the empty text.
C24_OutputNonEmpty ==
    (StopReturned /\ res = "Ok") => output /= ""

(***************************************************************************)
(* The level callback and the tray icon                                    *)
(***************************************************************************)
\* C25: a level callback, whether its icon update works or fails, leaves
\* the status, the capture, the rest of the session state, the lock, every
\* handler's position and the result of the operation in flight as they
\* were.
C25_LevelCallbackFrame ==
    [][(\E level \in Levels, ok \in BOOLEAN : level_callback(level, ok))
          => /\ status' = status
             /\ recording' = recording
             /\ captures' = captures
             /\ SessionState' = SessionState
             /\ lock' = lock
             /\ pc' = pc
             /\ res' = res]_vars

\* The icon shows a level while the capture runs and a second handler has
\* arrived.
C25_Witness ==
    /\ icon \in LevelIcons
    /\ recording
    /\ levelCallback
    /\ status = "Recording"
    /\ \E t \in Triggers : pc[t] = "enter"

(***************************************************************************)
(* The tray icon at rest                                                   *)
(***************************************************************************)
\* No task holds the lock, every handler has ended, no capture runs and the
\* load-modes task has ended with the modes loaded.
AtRest ==
    /\ lock = NoTask
    /\ \A t \in Triggers : pc[t] = "idle"
    /\ ~recording
    /\ loaderPc = "done"
    /\ modes /= {}

\* C26: when no handler or command is executing, no capture is active and
\* the modes are loaded, the tray icon shows the current status.
C26_IconShowsStatus ==
    AtRest => icon = status

(***************************************************************************)
(* Rendering a prompt                                                      *)
(***************************************************************************)
Symbols(s) == {s[i] : i \in 1..Len(s)}

RECURSIVE Flatten(_)
Flatten(texts) ==
    IF texts = << >> THEN << >> ELSE Head(texts) \o Flatten(Tail(texts))

\* s from its first to its last symbol that is no whitespace.
Stripped(s) ==
    LET solid == {i \in 1..Len(s) : s[i] \notin Whitespace}
    IN  IF solid = {} THEN << >>
        ELSE SubSeq(s, CHOOSE i \in solid : \A k \in solid : i <= k,
                       CHOOSE j \in solid : \A k \in solid : k <= j)

Occurrences(s, symbol, n) == Cardinality({k \in 1..n : s[k] = symbol})

\* Every {{#if context}} of the template is closed by a {{/if}} before the
\* next one opens, and no {{/if}} stands alone.
WellFormed(template) ==
    /\ \A n \in 0..Len(template) :
          Occurrences(template, BlockOpen, n) - Occurrences(template, BlockClose, n)
             \in {0, 1}
    /\ Occurrences(template, BlockOpen, Len(template))
          = Occurrences(template, BlockClose, Len(template))

\* Position i of a well-formed template is a delimiter of a block or lies
\* inside one.
InBlock(template, i) ==
    Occurrences(template, BlockOpen, i) > Occurrences(template, BlockClose, i - 1)

\* The text that stands for one symbol of the template when the transcript
\* and the language are filled in.
Filled(symbol) ==
    IF symbol = TranscriptPlaceholder THEN call.transcript
    ELSE IF symbol = LanguagePlaceholder THEN call.language
    ELSE <<symbol>>

\* The template without its blocks, the rest filled in.
WithoutBlocks(template) ==
    Flatten([i \in 1..Len(template) |->
                IF InBlock(template, i) THEN << >> ELSE Filled(template[i])])

\* The template without the delimiters of its blocks, the context and the
\* rest filled in.
WithContext(template, ctx) ==
    Flatten([i \in 1..Len(template) |->
                IF template[i] \in {BlockOpen, BlockClose} THEN << >>
                ELSE IF template[i] = ContextPlaceholder THEN ctx
                ELSE Filled(template[i])])

Rendered == returned /\ call.fn = "render_prompt"

\* C27: render_prompt without a context removes every block of a
\* well-formed template, delimiters and inner content over any lines, and
\* keeps the text outside the blocks: the prompt is the text outside the
\* blocks with transcript and language filled in, trimmed.
C27_NoContextRemovesBlocks ==
    (Rendered /\ ~call.context.some /\ WellFormed(call.template))
       => rendered = Stripped(WithoutBlocks(call.template))

\* s with every symbol from replaced by the text to, in one pass.
Substituted(s, from, to) ==
    Flatten([i \in 1..Len(s) |-> IF s[i] = from THEN to ELSE <<s[i]>>])

\* The template once the transcript, then the language are filled in.
VariablesFilled ==
    Substituted(Substituted(call.template, TranscriptPlaceholder, call.transcript),
                LanguagePlaceholder, call.language)

\* C28: render_prompt with a context takes the text in which transcript
\* and language are filled in, strips the delimiters of the blocks, puts
\* the context, as it is, in the place of every context placeholder and
\* keeps all the rest, what is inside the blocks included; the prompt is
\* that text trimmed.
C28_ContextKeepsBlockContent ==
    (Rendered /\ call.context.some)
       => rendered
             = Stripped(Flatten([i \in 1..Len(VariablesFilled) |->
                  IF VariablesFilled[i] \in {BlockOpen, BlockClose} THEN << >>
                  ELSE IF VariablesFilled[i] = ContextPlaceholder
                       THEN call.context.value
                  ELSE <<VariablesFilled[i]>>]))

\* A block with the context placeholder, then the transcript: the
\* context, which holds a delimiter and a placeholder, stands as it is,
\* the delimiters of the block are gone.
C28_Witness ==
    /\ Rendered
    /\ call.context = Some(<<BlockClose, TranscriptPlaceholder>>)
    /\ call.template = <<BlockOpen, ContextPlaceholder, BlockClose,
                         TranscriptPlaceholder>>
    /\ call.transcript = <<"h", "i">>
    /\ rendered = <<BlockClose, TranscriptPlaceholder, "h", "i">>

\* The template holds no block delimiter and no context placeholder.
NoContextSyntax(template) ==
    Symbols(template) \cap {BlockOpen, BlockClose, ContextPlaceholder} = {}

\* C29: with or without a context, the prompt starts and ends with no
\* whitespace; no transcript or language placeholder of the template is
\* left in it; and for a template of text, transcript and language
\* placeholders only it is the template with every placeholder replaced by
\* its value, trimmed.
C29_PlaceholdersReplacedAndTrimmed ==
    Rendered
       => /\ rendered = << >>
             \/ (rendered[1] \notin Whitespace /\ rendered[Len(rendered)] \notin Whitespace)
          /\ (call.context.some => TranscriptPlaceholder \notin Symbols(call.context.value))
                => Symbols(rendered) \cap {TranscriptPlaceholder, LanguagePlaceholder} = {}
          /\ NoContextSyntax(call.template)
                => rendered = Stripped(Flatten([i \in 1..Len(call.template) |->
                                                   Filled(call.template[i])]))

(***************************************************************************)
(* Classifying a segment                                                   *)
(***************************************************************************)
Classified == returned /\ call.fn = "isNonSpeechArtifact"

\* The segments whose classification is given by example.
ArtifactExamples ==
    {[segment |-> <<"[", "B", "L", "A", "N", "K", "_", "A", "U", "D", "I", "O", "]">>, is |-> TRUE],
     [segment |-> <<"[", "b", "l", "a", "n", "k", " ", "a", "u", "d", "i", "o", "]">>, is |-> TRUE],
     [segment |-> <<"(", "m", "u", "s", "i", "c", ")">>, is |-> TRUE],
     [segment |-> <<"[", "c", "u", "s", "t", "o", "m", " ", "t", "a", "g", "]">>, is |-> FALSE],
     [segment |-> << >>, is |-> TRUE],
     [segment |-> <<"I", " ", "l", "i", "k", "e", " ", "m", "u", "s", "i", "c">>, is |-> FALSE]}

\* C30: a segment is an artifact exactly when, without the whitespace
\* around it, it is empty or is a vocabulary entry in any letter case
\* between "[" and "]" or between "(" and ")"; the examples are classified
\* as stated.
C30_ArtifactExactlyVocabulary ==
    Classified
       => /\ artifact
             <=> \/ Stripped(call.segment) = << >>
                 \/ \E word \in ArtifactVocabulary :
                       to_lowercase(Stripped(call.segment))
                          \in {<<"[">> \o word \o <<"]">>, <<"(">> \o word \o <<")">>}
          /\ \A example \in ArtifactExamples :
                call.segment = example.segment => artifact = example.is

\* The blank-audio marker in capitals and with an underscore, whitespace
\* around it, is an artifact.
C30_Witness ==
    /\ Classified
    /\ call.segment = <<" ">> \o <<"[", "B", "L", "A", "N", "K", "_", "A", "U", "D", "I", "O", "]">> \o <<"\n">>
    /\ artifact

(***************************************************************************)
(* The transcript of a local recognition                                   *)
(***************************************************************************)
Transcribed == returned /\ call.fn = "transcribe"

\* The segments of the recognition that could be read, in order.
Recognised(results) ==
    [i \in 1..Len(results) |-> IF results[i].ok THEN results[i].segment ELSE << >>]

\* C31: the transcript is the recognised segments that are no artifacts,
\* put together in order with nothing between them, trimmed.
C31_TranscriptWithoutArtifacts ==
    Transcribed
       => transcribed = Stripped(Flatten([i \in 1..Len(call.results) |->
                     IF isNonSpeechArtifact(Recognised(call.results)[i])
                     THEN << >> ELSE Recognised(call.results)[i]]))

(***************************************************************************)
(* The duration of a session                                               *)
(***************************************************************************)
Measured == returned /\ call.fn = "calculate_duration_ms"

\* C32: the duration is the whole number of milliseconds in
\* samples * 1000 / 16000: the largest d with d * 16000 <= samples * 1000;
\* 32,000 samples give 2000.
C32_DurationFromSamples ==
    Measured
       => /\ duration_ms * 16000 <= call.samples * 1000
          /\ call.samples * 1000 < (duration_ms + 1) * 16000
          /\ call.samples = 32000 => duration_ms = 2000

\* Half a second of samples, which is less than one whole second.
C32_Witness ==
    /\ Measured
    /\ call.samples = 8000
    /\ duration_ms = 500

(***************************************************************************)
(* Status and capture                                                      *)
(***************************************************************************)
\* C33: whenever the state lock is free, the status is Recording exactly
\* when the recording handle reports a capture in progress.
C33_RecordingStatusIffCapture ==
    lock = NoTask => (status = "Recording" <=> is_recording)

\* C34: the status is never Error: it is always one of Loading, Ready,
\* Recording and Processing, and a stop whose pipeline failed returns with
\* status Ready.
C34_StatusNeverError ==
    /\ status \in {"Loading", "Ready", "Recording", "Processing"}
    /\ post \in {"Loading", "Ready", "Recording", "Processing"}
    /\ (StopReturned /\ res \in PipelineErrors) => status = "Ready"

\* A transcription has failed, and the stop has returned with status Ready.
C34_Witness ==
    /\ StopReturned
    /\ preRec
    /\ res = "Transcription"
    /\ status = "Ready"
    /\ transcript = "none"
    /\ icon = "Processing"

(***************************************************************************)
(* History records                                                         *)
(***************************************************************************)
\* The handoffs of the session that went to the history database.
HistoryHandoffs == {i \in DOMAIN handoffs : handoffs[i].to = "history"}

\* C35: a stop that returns success has handed exactly one record to the
\* history, and a stop that returns an error has handed none, whenever the
\* database task runs.
C35_HistoryExactlyOnce ==
    StopReturned
       => Cardinality(HistoryHandoffs) = (IF res = "Ok" THEN 1 ELSE 0)

(***************************************************************************)
(* The active mode key                                                     *)
(***************************************************************************)
\* C36: once the modes are loaded the active mode key names a mode of the
\* registry, whatever commands and sessions follow, and a stop fails with
\* ModeNotFound only while no modes are loaded.
C36_ActiveModeInRegistry ==
    /\ modes /= {} => get_active_mode /= "none"
    /\ (StopReturned /\ res = "ModeNotFound") => modes = {}

\* After the modes were loaded without the custom mode, the settings were
\* replaced by settings that name it, and a session has ended in success.
C36_Witness ==
    /\ StopReturned
    /\ res = "Ok"
    /\ modes = BuiltinModeKeys
    /\ settings.active_mode_key = "custom"
    /\ active_mode_key = "message"

\* C37: the active mode key in memory and the one in the settings are
\* equal after every operation.
C37_KeysAgree ==
    active_mode_key = settings.active_mode_key

\* A set_active_mode that returns an error: the key is not in the registry,
\* or the settings could not be saved.
SetActiveModeFails ==
    \E key \in SettingsModeKeys, saved \in BOOLEAN :
       /\ set_active_mode(key, saved)
       /\ key \notin modes \/ ~saved

\* C38: a set_active_mode that returns an error leaves the active mode key
\* and the settings as they were.
C38_FailedSetChangesNothing ==
    [][SetActiveModeFails
          => (active_mode_key' = active_mode_key /\ settings' = settings)]_vars

(***************************************************************************)
(* The transcript in the prompt                                            *)
(***************************************************************************)
\* C39: the transcript stands in the prompt as it is, whatever it holds:
\* with a context the prompt is the template with delimiters stripped and
\* transcript, language and context each put in the place of its
\* placeholder, and without a context the prompt of a well-formed template
\* is the text outside the blocks with transcript and language put in;
\* both trimmed.
C39_TranscriptVerbatim ==
    Rendered
       => IF call.context.some
          THEN rendered = Stripped(WithContext(call.template, call.context.value))
          ELSE WellFormed(call.template)
                  => rendered = Stripped(WithoutBlocks(call.template))

(***************************************************************************)
(* Termination                                                             *)
(***************************************************************************)
\* The database's mutex is only ever held by the holder of the state lock.
LockOrder == db_lock /= NoTask => lock = db_lock

\* C40: every handler that was entered returns, the startup tasks end, and
\* the state lock and the database's mutex are free again and again, so
\* that a status query or a command that waits for them returns; the
\* database's mutex is only held together with the state lock.
C40_EveryCallReturns ==
    /\ \A t \in CommandTasks : (pc[t] /= "idle") ~> (pc[t] = "idle")
    /\ <>(loaderPc = "done" /\ dbPc = "done")
    /\ []<>(lock = NoTask /\ db_lock = NoTask)
    /\ []LockOrder

\* A session holds the state lock at its history insert while a reprocess
\* waits to take the state lock again.
C40_Witness ==
    /\ pc[SessionTask] = "proc_persist"
    /\ database
    /\ lock = SessionTask
    /\ pc[SessionTask + 1] = "reprocess_relock"

====
